---- MODULE Spec2Model ----
(***************************************************************************)
(* Model of the pkl-python evaluator protocol client:                      *)
(*   src/pkl-python/evalutor/evaluator_manager.py  (EvaluatorManager)      *)
(*   src/pkl-python/evalutor/evaluator.py          (EvaluatorImpl)         *)
(*   src/pkl-python/types/incoming.py              (decode)                *)
(*                                                                         *)
(* Reading of the source.  An awaited completion suspends its caller until *)
(* resolve is called on it; `self.decode(stdout).catch(print)` runs the    *)
(* read loop as a task whose escaping exception is printed and ends the    *)
(* loop; `self.cmd.on('close', self.handle_close)` runs handle_close once, *)
(* after the engine process has exited; send() writes one frame to the     *)
(* engine's stdin.  Field names are matched up to camelCase / snake_case   *)
(* spelling (requestId / request_id).  Message kind codes (types/codes) are *)
(* kept symbolic.                                                          *)
(***************************************************************************)
EXTENDS Integers, Sequences, FiniteSets, TLC

\* ---------------------------------------------------------------- bounds
MaxOps == 4    \* calls of new_evaluator, evaluate_expression_raw and
               \* EvaluatorImpl.close, plus frames taken by the read loop
MaxCallbacks == 1   \* read/list callback requests the engine sends to sessions

VARIABLES
    proc,                \* engine process: "running" | "exiting" | "closed"
    closed,              \* EvaluatorManager.closed
    pending_evaluators,  \* EvaluatorManager.pending_evaluators: key -> completion
    evaluators,          \* EvaluatorManager.evaluators: the evaluator ids in the table
    session,             \* the EvaluatorImpl objects, by evaluator id
    create,              \* the new_evaluator calls
    eval,                \* the evaluate_expression_raw calls
    loop,                \* the read loop task: "running" | "awaiting_handler" |
                         \* "returned" | "failed" | "not_started"
    sent,                \* frames written to the engine's stdin, in order
    nframes,             \* frames the read loop has taken from the stream
    console,             \* the kind of line printed last
    caller_opts,         \* the options the caller passes to new_evaluator
    manager              \* the manager class in use: "EvaluatorManager", or
                         \* EvaluatorManagerImpl, whose constructor is running
                         \* ("constructing") or has returned ("EvaluatorManagerImpl")

vars == <<proc, closed, pending_evaluators, evaluators, session, create, eval,
          loop, sent, nframes, console, caller_opts, manager>>

EvalIds == 1..MaxOps
CreateCalls == 1..MaxOps
EvalCalls == 1..MaxOps

\* how often EvaluatorImpl.close has run, over the sessions 1..n
RECURSIVE CloseCalls(_)
CloseCalls(n) == IF n = 0 THEN 0 ELSE session[n].close_calls + CloseCalls(n - 1)

\* calls issued so far and frames taken so far
OpsUsed ==
    Cardinality({c \in CreateCalls : create[c].pc # "idle"})
    + Cardinality({k \in EvalCalls : eval[k].pc # "idle"})
    + CloseCalls(MaxOps)
    + nframes

\* the engine numbers the evaluators it creates 1, 2, ...
NextEvaluatorId == Cardinality({e \in EvalIds : session[e].made}) + 1

\* ------------------------------------------------------------- constants
CreateRequestId == 0
NoError == ""
PklExited == "pkl command exited"
ManagerClosedError == "EvaluatorManager has been closed"
EvaluatorClosedError == "evaluator is closed"
NoFrame == [code |-> "none", evaluator_id |-> 0, request_id |-> 0,
            error |-> NoError, level |-> 0, uri |-> ""]
Quiet == ""

\* ----------------------------------------------------------- message model
KnownCodes == {"EvaluateResponse", "EvaluateLog", "NewEvaluatorResponse",
               "EvaluateRead", "EvaluateReadModule",
               "ListResourcesRequest", "ListModulesRequest"}
CallbackCodes == {"EvaluateRead", "EvaluateReadModule",
                  "ListResourcesRequest", "ListModulesRequest"}

\* what a frame may carry: the evaluator ids the engine has assigned and the next
\* one, which no session has; request id 0 or 1 and the ids the session registered
FrameEvalIds == (1..NextEvaluatorId) \cap EvalIds
FrameReqIds(e) == {CreateRequestId, 1} \cup DOMAIN session[e].pending_requests
Uris == {"memory://x", "memory://missing", "http://[bad"}

Frame(c, e, r, err, lvl, u) ==
    [code |-> c, evaluator_id |-> e, request_id |-> r, error |-> err,
     level |-> lvl, uri |-> u]

EvaluateResponseFrames(e) ==
    {Frame("EvaluateResponse", e, r, err, 0, "") :
        r \in FrameReqIds(e), err \in {NoError, "boom"}}
LogFrames(e) == {Frame("EvaluateLog", e, 0, NoError, lvl, "") : lvl \in 0..2}
CreateResponseFrames(e) ==
    {Frame("NewEvaluatorResponse", e, r, NoError, 0, "") : r \in {CreateRequestId, 1}}
ResponseCodes == {"EvaluateReadResponse", "EvaluateReadModuleResponse",
                  "ListResourcesResponse", "ListModulesResponse"}

\* callback requests answered so far: each one answered left its response in sent
CallbacksAnswered == Cardinality({i \in DOMAIN sent : sent[i].code \in ResponseCodes})

\* the engine numbers its callback requests 1, 2, ...
CallbackReqIds == {CallbacksAnswered + 1}

CallbackFrames(e) ==
    IF CallbacksAnswered >= MaxCallbacks THEN {}
    ELSE {Frame(c, e, r, NoError, 0, u) :
             c \in CallbackCodes, r \in CallbackReqIds, u \in Uris}
UnknownCodeFrames == {Frame("Unknown", 1, 0, NoError, 0, "")}

Frames ==
    UNION {EvaluateResponseFrames(e) \cup LogFrames(e) \cup CreateResponseFrames(e)
           \cup CallbackFrames(e) : e \in FrameEvalIds}
    \cup UnknownCodeFrames

\* types/incoming.py decode: a frame whose code is none of the seven raises
DecodeRaises(f) == f.code \notin KnownCodes

\* ----------------------------------------------------------------- readers
\* the readers a caller registers in the options of new_evaluator: one for the
\* memory scheme
Readers == {[scheme |-> "memory"]}

\* opts.resource_readers and opts.module_readers of a new_evaluator call
Options ==
    {[resource_readers |-> <<>>, module_readers |-> <<>>]}
    \cup {[resource_readers |-> <<r>>, module_readers |-> <<r>>] : r \in Readers}

\* reader.read(url): the bytes of the resource, or a failure for one it has not
ReaderRead(reader, u) ==
    IF u = "memory://x"
    THEN [ok |-> TRUE, value |-> "stubbed bytes", error |-> NoError]
    ELSE [ok |-> FALSE, value |-> "", error |-> "resource not found"]

\* reader.list_elements(url): the path elements, or a failure
ReaderList(reader, u) ==
    IF u = "memory://x"
    THEN [ok |-> TRUE, value |-> <<"x">>, error |-> NoError]
    ELSE [ok |-> FALSE, value |-> <<>>, error |-> "resource not found"]

\* ---------------------------------------------------------------- sessions
\* EvaluatorImpl.__init__; close_calls counts the calls of close on the object
NewSession(id) ==
    [made |-> TRUE, closed |-> FALSE, pending_requests |-> <<>>,
     resource_readers |-> <<>>, module_readers |-> <<>>, rand_state |-> id,
     close_calls |-> 0]

NotMade ==
    [made |-> FALSE, closed |-> FALSE, pending_requests |-> <<>>,
     resource_readers |-> <<>>, module_readers |-> <<>>, rand_state |-> 0,
     close_calls |-> 0]

\* the completion stored under a request id: how often resolve was called on it
\* and with which message
Unresolved == [resolves |-> 0, resp |-> NoFrame]

Init ==
    /\ proc = "running"
    /\ closed = FALSE
    /\ pending_evaluators = <<>>
    /\ evaluators = {}
    /\ session = [e \in EvalIds |-> NotMade]
    /\ create = [c \in CreateCalls |->
                    [pc |-> "idle", request_id |-> 0, error |-> NoError, ev |-> 0]]
    /\ eval = [k \in EvalCalls |->
                  [pc |-> "idle", ev |-> 0, request_id |-> 0, error |-> NoError]]
    /\ manager \in {"EvaluatorManager", "constructing"}
    /\ loop = (IF manager = "EvaluatorManager" THEN "running" ELSE "not_started")
    /\ sent = <<>>
    /\ nframes = 0
    /\ console = Quiet
    /\ caller_opts \in Options

\* ------------------------------------------------------------ transport
\* outgoing frame shapes (types/outgoing.py and the response dicts of evaluator.py)
Out(c, e, r, err) == [code |-> c, evaluator_id |-> e, request_id |-> r, error |-> err]

\* EvaluatorManager.send: one frame written to the engine's stdin
send(out) == Append(sent, out)

\* Popen.kill: ends a running process; a process that has exited stays as it is
killRestartsExit(p) == "exiting"
kill(p) == IF p = "running" THEN "exiting" ELSE p

\* ------------------------------------------------------ manager: callers
\* new_evaluator line 173: the closed check
NewEvaluatorRejectsNever == FALSE
NewEvaluatorRejects == closed

\* new_evaluator line 177: the request id of the CreateEvaluator message
CreateEvaluatorRequestId(c) == CreateRequestId

\* responses the awaited send may yield to new_evaluator: an engine error, or a
\* success carrying the next evaluator id of the engine
CreateResponses ==
    {[evaluator_id |-> 0, error |-> "rejected"]}
    \cup {[evaluator_id |-> e, error |-> NoError] : e \in {NextEvaluatorId} \cap EvalIds}

\* the CreateEvaluator message of new_evaluator lines 176-182
CreateEvaluator(rid, opts) ==
    [code |-> "NewEvaluator", evaluator_id |-> 0, request_id |-> rid, error |-> NoError,
     client_resource_readers |-> opts.resource_readers,
     client_module_readers |-> opts.module_readers]

\* new_evaluator lines 172-190: closed check, build CreateEvaluator, send, suspend
new_evaluator(c, opts) ==
    /\ manager # "constructing"
    /\ create[c].pc = "idle"
    /\ \A j \in 1..(c - 1) : create[j].pc # "idle"
    /\ OpsUsed < MaxOps
    /\ IF NewEvaluatorRejects
       THEN /\ create' = [create EXCEPT ![c].pc = "failed", ![c].error = ManagerClosedError]
            /\ sent' = sent
       ELSE /\ create' = [create EXCEPT ![c].pc = "awaiting",
                                        ![c].request_id = CreateEvaluatorRequestId(c)]
            /\ sent' = send(CreateEvaluator(CreateEvaluatorRequestId(c), opts))
    /\ UNCHANGED <<proc, closed, pending_evaluators, evaluators, session, eval,
                   loop, nframes, console,
                   caller_opts, manager>>

\* new_evaluator line 193: does the response carry an error
CreateResponseFailsNever(response) == FALSE
CreateResponseFails(response) == response.error # NoError

\* new_evaluator lines 192-198: the awaited value arrives
new_evaluator_resume(c, response) ==
    /\ create[c].pc = "awaiting"
    /\ IF CreateResponseFails(response)
       THEN /\ create' = [create EXCEPT ![c].pc = "failed", ![c].error = response.error]
            /\ UNCHANGED <<evaluators, session>>
       ELSE /\ session' = [session EXCEPT ![response.evaluator_id] = NewSession(response.evaluator_id)]
            /\ evaluators' = evaluators \cup {response.evaluator_id}
            /\ create' = [create EXCEPT ![c].pc = "returned", ![c].ev = response.evaluator_id]
    /\ UNCHANGED <<proc, closed, pending_evaluators, eval, loop, sent, nframes,
                   console,
                   caller_opts, manager>>

\* EvaluatorManager.close lines 158-159
close ==
    /\ manager # "constructing"
    /\ proc' = kill(proc)
    /\ UNCHANGED <<closed, pending_evaluators, evaluators, session, create, eval,
                   loop, sent, nframes, console,
                   caller_opts, manager>>

\* the engine process exits by itself
process_exit ==
    /\ proc = "running"
    /\ proc' = "exiting"
    /\ UNCHANGED <<closed, pending_evaluators, evaluators, session, create, eval,
                   loop, sent, nframes, console,
                   caller_opts, manager>>

\* a completion rejected with an error
Rejected(slot, err) ==
    [resolves |-> slot.resolves + 1, resp |-> [NoFrame EXCEPT !.code = "rejected", !.error = err]]

\* handle_close line 103 with EvaluatorImpl.close line 74: the sessions teardown closes
TeardownClosesNone(e) == FALSE
TeardownCloses(e) == e \in evaluators

\* line 95: the close event of a process is emitted once, so that after its
\* handler the process is closed for good
ExitSignalledAgain == "exiting"
ExitSignalled == "closed"

\* handle_close lines 97-108, run on the process's close event
handle_close ==
    /\ manager = "EvaluatorManager"
    /\ proc = "exiting"
    /\ pending_evaluators' =
           [k \in DOMAIN pending_evaluators |-> Rejected(pending_evaluators[k], PklExited)]
    /\ session' = [e \in EvalIds |->
                     IF TeardownCloses(e)
                     THEN [session[e] EXCEPT !.closed = TRUE, !.close_calls = @ + 1]
                     ELSE session[e]]
    /\ closed' = TRUE
    /\ proc' = ExitSignalled
    /\ UNCHANGED <<evaluators, create, eval, loop, sent, nframes, console,
                   caller_opts, manager>>

\* EvaluatorManagerImpl.__init__ lines 49-71 (pkl_python/evaluator): the
\* constructor creates the decode coroutine without running it, blocks in
\* cmd.wait() until the engine process has exited, then rejects the pending
\* creations, closes the sessions, sets closed, and returns
init_teardown ==
    /\ manager = "constructing"
    /\ proc = "exiting"
    /\ pending_evaluators' =
           [k \in DOMAIN pending_evaluators |-> Rejected(pending_evaluators[k], PklExited)]
    /\ session' = [e \in EvalIds |->
                     IF TeardownCloses(e)
                     THEN [session[e] EXCEPT !.closed = TRUE, !.close_calls = @ + 1]
                     ELSE session[e]]
    /\ closed' = TRUE
    /\ proc' = ExitSignalled
    /\ manager' = "EvaluatorManagerImpl"
    /\ UNCHANGED <<evaluators, create, eval, loop, sent, nframes, console, caller_opts>>

\* ------------------------------------------------------ session: callers
\* random_int63 is called at evaluator.py line 86 and defined nowhere under src:
\* a counter over rand_state, which __init__ seeds with the evaluator id
random_int63(st) == st + 1

\* evaluate_expression_raw line 86: the request id of the Evaluate message
EvaluateRequestIdFixed(s) == CreateRequestId
EvaluateRequestId(s) == random_int63(session[s].rand_state)

\* evaluate_expression_raw line 82: the closed check
EvaluateRejectsNever(s) == FALSE
EvaluateRejects(s) == session[s].closed

\* evaluate_expression_raw lines 81-96: closed check, register, send, suspend.
\* evaluate_expression, evaluate_module, evaluate_output_files,
\* evaluate_output_text and evaluate_output_value (lines 77-79, 104-114) start by
\* awaiting this method and touch no state before it: a call of one of them is
\* a call of this action.
evaluate_expression_raw(k, s) ==
    /\ eval[k].pc = "idle"
    /\ \A j \in 1..(k - 1) : eval[j].pc # "idle"
    /\ OpsUsed < MaxOps
    /\ session[s].made
    /\ IF EvaluateRejects(s)
       THEN /\ eval' = [eval EXCEPT ![k].pc = "failed", ![k].ev = s,
                                    ![k].error = EvaluatorClosedError]
            /\ UNCHANGED <<session, sent>>
       ELSE LET rid == EvaluateRequestId(s) IN
            /\ session' = [session EXCEPT
                   ![s].rand_state = random_int63(@),
                   ![s].pending_requests = (rid :> Unresolved) @@ @]
            /\ sent' = send(Out("Evaluate", s, rid, NoError))
            /\ eval' = [eval EXCEPT ![k].pc = "awaiting", ![k].ev = s,
                                    ![k].request_id = rid]
    /\ UNCHANGED <<proc, closed, pending_evaluators, evaluators, create, loop,
                   nframes, console,
                   caller_opts, manager>>

\* evaluate_expression_raw lines 98-102: the awaited completion has been resolved
evaluate_resume(k) ==
    /\ eval[k].pc = "awaiting"
    /\ LET slot == session[eval[k].ev].pending_requests[eval[k].request_id] IN
       /\ slot.resolves > 0
       /\ IF slot.resp.error # NoError
          THEN eval' = [eval EXCEPT ![k].pc = "failed", ![k].error = slot.resp.error]
          ELSE eval' = [eval EXCEPT ![k].pc = "returned"]
    /\ UNCHANGED <<proc, closed, pending_evaluators, evaluators, session, create,
                   loop, sent, nframes, console,
                   caller_opts, manager>>

\* EvaluatorImpl.close lines 73-75
evaluator_close(s) ==
    /\ session[s].made
    /\ OpsUsed < MaxOps
    /\ session' = [session EXCEPT ![s].closed = TRUE, ![s].close_calls = @ + 1]
    /\ proc' = kill(proc)
    /\ UNCHANGED <<closed, pending_evaluators, evaluators, create, eval, loop, sent,
                   nframes, console,
                   caller_opts, manager>>

\* ------------------------------------------------------------- read loop
\* get_evaluator lines 122-126 and decode lines 132-134: is the id in the table
EvaluatorKnownAlways(id) == TRUE
EvaluatorKnown(id) == id \in evaluators

\* a completion resolved with a message (pending.resolve(msg))
Resolved(slot, msg) == [resolves |-> slot.resolves + 1, resp |-> msg]

\* urlparse: raises on a malformed authority, otherwise yields the scheme, which
\* is the text before the first colon
UrlParseFails(u) == u = "http://[bad"
UrlScheme(u) == IF u \in {"memory://x", "memory://missing"} THEN "memory" ELSE "http"

\* the reader a callback handler picks: next(r for r in readers if f"{r.scheme}:" == url.scheme)
MatchingReaders(readers, scheme) ==
    {i \in DOMAIN readers : readers[i].scheme \o ":" = scheme}

ResponseCode(c) ==
    CASE c = "EvaluateRead" -> "EvaluateReadResponse"
      [] c = "EvaluateReadModule" -> "EvaluateReadModuleResponse"
      [] c = "ListResourcesRequest" -> "ListResourcesResponse"
      [] c = "ListModulesRequest" -> "ListModulesResponse"

NoReaderErrorGeneric(c, scheme) == "No reader found"
NoReaderError(c, scheme) ==
    IF c \in {"EvaluateRead", "ListResourcesRequest"}
    THEN "No resource reader found for scheme " \o scheme
    ELSE "No module reader found for scheme " \o scheme

\* the response dicts of the callback handlers: evaluatorId, requestId and code,
\* and one of error, contents, pathElements
WithError(s, rid, code, e) ==
    [code |-> code, evaluator_id |-> s, request_id |-> rid, error |-> e]
WithContents(s, rid, code, bytes) ==
    [code |-> code, evaluator_id |-> s, request_id |-> rid, contents |-> bytes]
WithPathElements(s, rid, code, elems) ==
    [code |-> code, evaluator_id |-> s, request_id |-> rid, path_elements |-> elems]

\* handle_read_resource, handle_read_module, handle_list_resources,
\* handle_list_modules: the one response frame the handler sends
CallbackResponseNoRequestId(s, msg) ==
    WithError(s, CreateRequestId, ResponseCode(msg.code), "internal error")
CallbackResponse(s, msg) ==
    LET readers == IF msg.code \in {"EvaluateRead", "ListResourcesRequest"}
                   THEN session[s].resource_readers ELSE session[s].module_readers
        found == MatchingReaders(readers, UrlScheme(msg.uri))
        code == ResponseCode(msg.code)
    IN  IF UrlParseFails(msg.uri)
        THEN WithError(s, msg.request_id, code,
                       "internal error: failed to parse resource url: Invalid IPv6 URL")
        ELSE IF found = {}
        THEN WithError(s, msg.request_id, code, NoReaderError(msg.code, UrlScheme(msg.uri)))
        ELSE LET reader == readers[CHOOSE i \in found : \A j \in found : i <= j]
                 reading == msg.code \in {"EvaluateRead", "EvaluateReadModule"}
                 out == IF reading THEN ReaderRead(reader, msg.uri)
                        ELSE ReaderList(reader, msg.uri)
             IN  IF ~out.ok THEN WithError(s, msg.request_id, code, out.error)
                 ELSE IF reading THEN WithContents(s, msg.request_id, code, out.value)
                 ELSE WithPathElements(s, msg.request_id, code, out.value)

\* handle_log lines 123-129: levels 0 and 1 are printed, any other level raises
LogRaisesNever(msg) == FALSE
LogRaises(msg) == msg.level \notin {0, 1}

\* decode line 151: what the read loop becomes when a creation response names a
\* request id that is not in pending_evaluators (the `return` leaves the loop)
AfterUnknownCreateResponse == "returned"

\* decode lines 128-152: one iteration of the read loop on frame f
decode(f) ==
    /\ loop = "running"
    /\ proc # "closed"
    /\ OpsUsed < MaxOps
    /\ nframes' = nframes + 1
    /\ IF DecodeRaises(f)
       THEN /\ loop' = "failed"
            /\ console' = "Unknown code"
            /\ UNCHANGED <<session, sent, pending_evaluators>>
       ELSE IF ~EvaluatorKnown(f.evaluator_id)
       THEN /\ console' = "Received unknown evaluator id:"
            /\ UNCHANGED <<loop, session, sent, pending_evaluators>>
       ELSE IF f.code = "EvaluateResponse"
       THEN \* handle_evaluate_response lines 116-121
            IF f.request_id \notin DOMAIN session[f.evaluator_id].pending_requests
            THEN /\ console' = "warn: received a message for an unknown request id:"
                 /\ UNCHANGED <<loop, session, sent, pending_evaluators>>
            ELSE /\ session' = [session EXCEPT
                        ![f.evaluator_id].pending_requests[f.request_id] = Resolved(@, f)]
                 /\ UNCHANGED <<loop, console, sent, pending_evaluators>>
       ELSE IF f.code = "EvaluateLog"
       THEN IF LogRaises(f)
            THEN /\ loop' = "failed"
                 /\ console' = "unknown log level:"
                 /\ UNCHANGED <<session, sent, pending_evaluators>>
            ELSE /\ console' = "log"
                 /\ UNCHANGED <<loop, session, sent, pending_evaluators>>
       ELSE IF f.code \in CallbackCodes
       THEN \* lines 139-146: the loop awaits the handler, which awaits its send
            /\ sent' = send(CallbackResponse(f.evaluator_id, f))
            /\ loop' = "awaiting_handler"
            /\ UNCHANGED <<console, session, pending_evaluators>>
       ELSE \* NewEvaluatorResponse, lines 147-152
            IF ToString(f.request_id) \notin DOMAIN pending_evaluators
            THEN /\ console' = "warn: received a message for an unknown request id:"
                 /\ loop' = AfterUnknownCreateResponse
                 /\ UNCHANGED <<session, sent, pending_evaluators>>
            ELSE /\ pending_evaluators' = [pending_evaluators EXCEPT
                        ![ToString(f.request_id)] = Resolved(@, f)]
                 /\ UNCHANGED <<loop, console, session, sent>>
    /\ UNCHANGED <<proc, closed, evaluators, create, eval,
                   caller_opts, manager>>

\* decode lines 139-146: the awaited callback handler returns to the read loop
handler_done ==
    /\ loop = "awaiting_handler"
    /\ loop' = "running"
    /\ UNCHANGED <<proc, closed, pending_evaluators, evaluators, session, create, eval,
                   sent, nframes, console,
                   caller_opts, manager>>

\* ------------------------------------------------------------ specification
Next ==
    \/ \E c \in CreateCalls : new_evaluator(c, caller_opts)
    \/ \E c \in CreateCalls : \E response \in CreateResponses : new_evaluator_resume(c, response)
    \/ \E k \in EvalCalls : \E s \in EvalIds : evaluate_expression_raw(k, s)
    \/ \E k \in EvalCalls : evaluate_resume(k)
    \/ \E s \in EvalIds : evaluator_close(s)
    \/ close
    \/ process_exit
    \/ handle_close
    \/ init_teardown
    \/ \E f \in Frames : decode(f)
    \/ handler_done

Spec == Init /\ [][Next]_vars

\* ------------------------------------------------- new_project_evaluator
\* PreconfiguredOptions is imported from evaluator_options, which is not under
\* src: the default options, which register no reader
PreconfiguredOptions == [resource_readers |-> <<>>, module_readers |-> <<>>]

\* new_project_evaluator line 201, up to the await inside new_evaluator: the
\* bootstrap session is asked for with the preconfigured options
project_begin ==
    /\ create[1].pc = "idle"
    /\ new_evaluator(1, PreconfiguredOptions)

\* lines 201-202 with project.py line 50: the bootstrap creation returns (or
\* raises, which ends the call), and evaluate_output_value on the new session
\* registers and sends the Evaluate request of PklProject and suspends
project_load(response) ==
    /\ create[1].pc = "awaiting"
    /\ IF CreateResponseFails(response)
       THEN /\ create' = [create EXCEPT ![1].pc = "failed", ![1].error = response.error]
            /\ UNCHANGED <<evaluators, session, eval, sent>>
       ELSE LET id  == response.evaluator_id
                rid == random_int63(NewSession(id).rand_state) IN
            /\ evaluators' = evaluators \cup {id}
            /\ create' = [create EXCEPT ![1].pc = "returned", ![1].ev = id]
            /\ session' = [session EXCEPT ![id] =
                   [NewSession(id) EXCEPT !.rand_state = random_int63(@),
                                          !.pending_requests = (rid :> Unresolved)]]
            /\ sent' = send(Out("Evaluate", id, rid, NoError))
            /\ eval' = [eval EXCEPT ![1].pc = "awaiting", ![1].ev = id,
                                    ![1].request_id = rid]
    /\ UNCHANGED <<proc, closed, pending_evaluators, loop, nframes, console,
                   caller_opts, manager>>

\* lines 202-204: the evaluation of PklProject has been resolved; on an error
\* the call raises, otherwise new_evaluator is called with the project's
\* settings merged with the caller's options (closed check, send, suspend)
project_create ==
    /\ eval[1].pc = "awaiting"
    /\ create[1].pc = "returned"
    /\ create[2].pc = "idle"
    /\ LET slot == session[eval[1].ev].pending_requests[eval[1].request_id] IN
       /\ slot.resolves > 0
       /\ IF slot.resp.error # NoError
          THEN /\ eval' = [eval EXCEPT ![1].pc = "failed", ![1].error = slot.resp.error]
               /\ UNCHANGED <<create, sent>>
          ELSE /\ eval' = [eval EXCEPT ![1].pc = "returned"]
               /\ IF NewEvaluatorRejects
                  THEN /\ create' = [create EXCEPT ![2].pc = "failed",
                                                   ![2].error = ManagerClosedError]
                       /\ sent' = sent
                  ELSE /\ create' = [create EXCEPT ![2].pc = "awaiting",
                                         ![2].request_id = CreateEvaluatorRequestId(2)]
                       /\ sent' = send(CreateEvaluator(CreateEvaluatorRequestId(2),
                                                       caller_opts))
    /\ UNCHANGED <<proc, closed, pending_evaluators, evaluators, session, loop,
                   nframes, console, caller_opts, manager>>

\* line 204: the creation of the real session returns it, or raises
project_return(response) ==
    /\ eval[1].pc = "returned"
    /\ new_evaluator_resume(2, response)

\* one call of new_project_evaluator, with the engine, the read loop and the
\* close of the manager running beside it
ProjectNext ==
    \/ project_begin
    \/ \E response \in CreateResponses : project_load(response)
    \/ project_create
    \/ \E response \in CreateResponses : project_return(response)
    \/ close
    \/ process_exit
    \/ handle_close
    \/ init_teardown
    \/ \E f \in Frames : decode(f)
    \/ handler_done

ProjectSpec == Init /\ [][ProjectNext]_vars

\* the close event of the exited process is delivered (cmd.on('close', ...)),
\* and a cmd.wait() that has returned is followed by the rest of the constructor
FairSpec == Spec /\ WF_vars(handle_close) /\ WF_vars(init_teardown)

\* ================================================================ claims
\* the completion an evaluate call waits on
SlotOf(k) == session[eval[k].ev].pending_requests[eval[k].request_id]

\* C1: if the engine exits while an evaluate call is in flight, the call's waiter
\* is completed with an error and does not stay suspended: the teardown that the
\* exit triggers, after which no frame is read any more, completes the completion
\* of every call that is still waiting on an unresolved one.
C1_InFlightEvaluateCompletedAtExit ==
    [][(proc = "exiting" /\ proc' = "closed") =>
          \A k \in EvalCalls :
              (eval[k].pc = "awaiting" /\ SlotOf(k).resolves = 0) =>
                  /\ session'[eval[k].ev].pending_requests[eval[k].request_id].resolves > 0
                  /\ session'[eval[k].ev].pending_requests[eval[k].request_id].resp.error
                         # NoError]_vars

\* C2: teardown completes every request pending at that moment, the manager's
\* creation requests and every session's evaluate requests, exactly once with
\* the 'pkl command exited' error.
C2_TeardownRejectsEveryPending ==
    [][(proc = "exiting" /\ proc' = "closed") =>
          /\ \A key \in DOMAIN pending_evaluators :
                pending_evaluators[key].resolves = 0 =>
                    /\ pending_evaluators'[key].resolves = 1
                    /\ pending_evaluators'[key].resp.error = PklExited
          /\ \A e \in evaluators : \A r \in DOMAIN session[e].pending_requests :
                session[e].pending_requests[r].resolves = 0 =>
                    /\ session'[e].pending_requests[r].resolves = 1
                    /\ session'[e].pending_requests[r].resp.error = PklExited]_vars

\* C3: once the manager's closed flag is set it stays set, and every new_evaluator
\* call made from then on fails with the closed-manager error, registers no
\* pending entry, sends no frame and adds no session.
C3_ClosedManagerRejectsNewEvaluator ==
    [][/\ closed => closed'
       /\ \A c \in CreateCalls :
            (closed /\ create[c].pc = "idle" /\ create'[c].pc # "idle") =>
                /\ create'[c].pc = "failed"
                /\ create'[c].error = ManagerClosedError
                /\ pending_evaluators' = pending_evaluators
                /\ sent' = sent
                /\ evaluators' = evaluators
                /\ session' = session]_vars

C3_Witness ==
    /\ closed
    /\ \E c \in CreateCalls : create[c].pc = "failed" /\ create[c].error = ManagerClosedError

\* C4: a pending evaluate request is resolved at most once; a second
\* EvaluateResponse with the same request id does not resolve it again.
C4_ResolvedAtMostOnce ==
    \A e \in EvalIds : \A r \in DOMAIN session[e].pending_requests :
        session[e].pending_requests[r].resolves <= 1

C6_OutstandingCreateIdsDistinct ==
    \A c1, c2 \in CreateCalls :
        (c1 # c2 /\ create[c1].pc = "awaiting" /\ create[c2].pc = "awaiting")
        => create[c1].request_id # create[c2].request_id

\* C7: a CreateEvaluatorResponse whose request id is that of a waiting
\* new_evaluator call is handled without requiring its evaluator id to be in
\* the session table: the read loop does not drop it as an unknown evaluator.
C7_CreateResponseNotDroppedAsUnknownEvaluator ==
    [][nframes' # nframes =>
          \A e \in FrameEvalIds : \A f \in CreateResponseFrames(e) :
              (/\ \E c \in CreateCalls :
                     create[c].pc = "awaiting" /\ create[c].request_id = f.request_id
               /\ decode(f))
              => console' # "Received unknown evaluator id:"]_vars

\* C8: while a new_evaluator call is waiting for its response, its entry is in
\* the manager's pending table under its request id.
C8_WaitingCreateIsRegistered ==
    \A c \in CreateCalls :
        create[c].pc = "awaiting" =>
            ToString(create[c].request_id) \in DOMAIN pending_evaluators

\* C9: a response frame whose request id is not in the relevant pending table
\* (an EvaluateResponse for a known evaluator, or a CreateEvaluatorResponse)
\* resolves nothing, changes no state, and leaves the read loop running.
C9_UnknownRequestIdOnlyWarns ==
    [][nframes' # nframes =>
          \A e \in FrameEvalIds :
          \A f \in EvaluateResponseFrames(e) \cup CreateResponseFrames(e) :
              (/\ \/ /\ f.code = "EvaluateResponse"
                     /\ e \in evaluators
                     /\ f.request_id \notin DOMAIN session[e].pending_requests
                  \/ /\ f.code = "NewEvaluatorResponse"
                     /\ ToString(f.request_id) \notin DOMAIN pending_evaluators
               /\ decode(f))
              => /\ loop' = "running"
                 /\ session' = session
                 /\ pending_evaluators' = pending_evaluators
                 /\ sent' = sent
                 /\ create' = create /\ eval' = eval
                 /\ console' \in {"warn: received a message for an unknown request id:",
                                  "Received unknown evaluator id:"}]_vars

\* C10: an evaluate-response, log or read/list callback frame whose evaluator
\* id is not in the session table is logged and dropped: no handler runs, no
\* frame is sent, no pending request changes, and the read loop keeps running.
C10_UnknownEvaluatorDropped ==
    [][nframes' # nframes =>
          \A e \in FrameEvalIds \ evaluators :
          \A f \in EvaluateResponseFrames(e) \cup LogFrames(e) \cup CallbackFrames(e) :
              decode(f)
              => /\ console' = "Received unknown evaluator id:"
                 /\ loop' = "running"
                 /\ sent' = sent
                 /\ session' = session
                 /\ pending_evaluators' = pending_evaluators
                 /\ create' = create /\ eval' = eval]_vars

C10_Witness ==
    /\ console = "Received unknown evaluator id:"
    /\ loop = "running"
    /\ evaluators # {}
    /\ nframes >= 2

\* the frame sent last
LastSent == sent[Len(sent)]

\* the reader, among those the caller registered in the options the sessions
\* were created with, that serves a callback request: resource readers for
\* read-resource and list-resources, module readers for the module requests
RegisteredFor(f) ==
    LET readers == IF f.code \in {"EvaluateRead", "ListResourcesRequest"}
                   THEN caller_opts.resource_readers ELSE caller_opts.module_readers
    IN  {readers[i] : i \in {j \in DOMAIN readers : readers[j].scheme = UrlScheme(f.uri)}}

\* what the registered reader answers to a callback request
ReaderOutcome(reader, f) ==
    IF f.code \in {"EvaluateRead", "EvaluateReadModule"}
    THEN ReaderRead(reader, f.uri) ELSE ReaderList(reader, f.uri)

\* C11: closing one session leaves the engine process running and closes
\* neither the manager nor any other session.
C11_SessionCloseLeavesEngineRunning ==
    [][\A s \in EvalIds :
          (~session[s].closed /\ evaluator_close(s)) =>
              /\ proc' = proc
              /\ closed' = closed
              /\ \A t \in EvalIds \ {s} : session'[t] = session[t]]_vars

\* C12: a second close of an already closed session changes nothing: the
\* session's state, the manager's state, the engine process and the frames sent
\* are what they were after the first close (only the count of calls differs).
C12_SecondCloseIsNoOp ==
    [][\A s \in EvalIds :
          (session[s].closed /\ evaluator_close(s)) =>
              /\ \A t \in EvalIds :
                    [session'[t] EXCEPT !.close_calls = 0]
                        = [session[t] EXCEPT !.close_calls = 0]
              /\ closed' = closed
              /\ pending_evaluators' = pending_evaluators
              /\ evaluators' = evaluators
              /\ proc' = proc
              /\ sent' = sent
              /\ loop' = loop]_vars

C12_Witness ==
    \E s \in EvalIds :
        session[s].closed /\ session[s].close_calls >= 2 /\ proc = "exiting"

\* C13: an evaluate operation called on a closed session fails at once with
\* the closed error: no request id is drawn, no pending entry is added and no
\* frame is sent.
C13_ClosedSessionRejectsEvaluate ==
    [][\A k \in EvalCalls : \A s \in EvalIds :
          (session[s].closed /\ evaluate_expression_raw(k, s)) =>
              /\ eval'[k].pc = "failed"
              /\ eval'[k].error = EvaluatorClosedError
              /\ session' = session
              /\ sent' = sent]_vars

C13_Witness ==
    \E k \in EvalCalls :
        /\ eval[k].pc = "failed"
        /\ eval[k].error = EvaluatorClosedError
        /\ session[eval[k].ev].closed

\* C14: for every read-resource, read-module, list-resources or list-modules
\* request dispatched to a session, the session sends exactly one response
\* frame, carrying the request's request id and the session's evaluator id;
\* the handler sends nothing more before it returns.
C14_OneResponsePerCallback ==
    [][/\ nframes' # nframes =>
            \A e \in evaluators : \A f \in CallbackFrames(e) :
                decode(f) =>
                    /\ Len(sent') = Len(sent) + 1
                    /\ SubSeq(sent', 1, Len(sent)) = sent
                    /\ sent'[Len(sent')].code = ResponseCode(f.code)
                    /\ sent'[Len(sent')].request_id = f.request_id
                    /\ sent'[Len(sent')].evaluator_id = e
       /\ handler_done => sent' = sent]_vars

C14_Witness ==
    /\ loop = "running"
    /\ sent # <<>>
    /\ LastSent.code \in ResponseCodes
    /\ LastSent.evaluator_id \in evaluators

\* C15: when the session was created with a resource reader registered for a
\* scheme and the engine sends a ReadResource request whose URI has that
\* scheme, the response frame carries the bytes that reader returns and no
\* error field.
C15_RegisteredReaderServesRead ==
    [][nframes' # nframes =>
          \A e \in evaluators : \A f \in CallbackFrames(e) :
          \A reader \in RegisteredFor(f) :
              (/\ f.code = "EvaluateRead"
               /\ ~UrlParseFails(f.uri)
               /\ ReaderRead(reader, f.uri).ok
               /\ decode(f))
              => /\ "contents" \in DOMAIN sent'[Len(sent')]
                 /\ "error" \notin DOMAIN sent'[Len(sent')]
                 /\ sent'[Len(sent')].contents = ReaderRead(reader, f.uri).value]_vars

\* C16: a list-resources request for a scheme with no registered reader is
\* answered with an error response that names the scheme; the read loop is not
\* ended and no in-flight request changes.
C16_UnregisteredSchemeListsError ==
    [][nframes' # nframes =>
          \A e \in evaluators : \A f \in CallbackFrames(e) :
              (/\ f.code = "ListResourcesRequest"
               /\ ~UrlParseFails(f.uri)
               /\ RegisteredFor(f) = {}
               /\ decode(f))
              => /\ "error" \in DOMAIN sent'[Len(sent')]
                 /\ sent'[Len(sent')].error
                        = "No resource reader found for scheme " \o UrlScheme(f.uri)
                 /\ loop' \in {"running", "awaiting_handler"}
                 /\ session' = session
                 /\ pending_evaluators' = pending_evaluators
                 /\ create' = create /\ eval' = eval]_vars

C16_Witness ==
    /\ caller_opts.resource_readers = <<>>
    /\ loop = "running"
    /\ sent # <<>>
    /\ LastSent.code = "ListResourcesResponse"
    /\ LastSent.error = "No resource reader found for scheme memory"
    /\ \E k \in EvalCalls : eval[k].pc = "awaiting" /\ SlotOf(k).resolves = 0

\* C17: when the read or list operation of the reader registered for the
\* request's scheme fails, the handler answers with a response frame whose
\* error field is the failure's message, and the read loop is not ended.
C17_ReaderFailureBecomesErrorResponse ==
    [][nframes' # nframes =>
          \A e \in evaluators : \A f \in CallbackFrames(e) :
          \A reader \in RegisteredFor(f) :
              (/\ ~UrlParseFails(f.uri)
               /\ ~ReaderOutcome(reader, f).ok
               /\ decode(f))
              => /\ "error" \in DOMAIN sent'[Len(sent')]
                 /\ sent'[Len(sent')].error = ReaderOutcome(reader, f).error
                 /\ loop' \in {"running", "awaiting_handler"}]_vars

\* C18: no failure inside a session handler the read loop invokes, a Log frame
\* of a level other than 0 and 1 included, ends the read loop.
C18_HandlerFailureKeepsLoopRunning ==
    [][nframes' # nframes =>
          \A e \in evaluators :
          \A f \in EvaluateResponseFrames(e) \cup LogFrames(e) \cup CallbackFrames(e) :
              decode(f) => loop' \in {"running", "awaiting_handler"}]_vars

\* C19: a Log frame of level 0 or 1 is accepted: it is printed, no frame is
\* sent and no pending request changes; a Log frame of any other level is not
\* ignored: handle_log fails with the unknown-level error.
C19_LogLevelsAcceptedOrRejected ==
    [][nframes' # nframes =>
          \A e \in evaluators : \A f \in LogFrames(e) :
              decode(f) =>
                  /\ sent' = sent
                  /\ session' = session
                  /\ pending_evaluators' = pending_evaluators
                  /\ IF f.level \in {0, 1}
                     THEN console' = "log" /\ loop' = "running"
                     ELSE console' = "unknown log level:" /\ loop' # "running"]_vars

C19_Witness ==
    /\ console = "unknown log level:"
    /\ evaluators # {}

\* C20: while a callback handler started for one request has not returned, an
\* EvaluateResponse for a pending evaluate request can still be dispatched and
\* resolved: the read loop does not wait for the handler.
C20_ResponseResolvedDuringCallback ==
    \A e \in evaluators : \A r \in DOMAIN session[e].pending_requests :
        (/\ loop = "awaiting_handler"
         /\ proc # "closed"
         /\ OpsUsed < MaxOps
         /\ session[e].pending_requests[r].resolves = 0)
        => ENABLED decode(Frame("EvaluateResponse", e, r, NoError, 0, ""))

\* C21: a decode failure on the read loop is fatal to the whole manager: when
\* the failure has been handled the manager is closed and every pending
\* creation and evaluate request has been rejected, so that no waiter stays
\* suspended.
C21_DecodeFailureClosesManager ==
    [][nframes' # nframes =>
          \A f \in UnknownCodeFrames :
              decode(f) =>
                  /\ closed'
                  /\ \A key \in DOMAIN pending_evaluators :
                        pending_evaluators'[key].resolves > 0
                  /\ \A k \in EvalCalls :
                        eval[k].pc = "awaiting" =>
                            session'[eval[k].ev].pending_requests[eval[k].request_id].resolves
                                > 0]_vars

\* C22: the session table changes only when new_evaluator receives a
\* successful creation response, which adds the session under the evaluator
\* id of the response; on a response with a non-empty error the call fails
\* with that error text and the session table is unchanged.
C22_SessionAddedOnlyOnSuccess ==
    [][/\ \A c \in CreateCalls : \A response \in CreateResponses :
            new_evaluator_resume(c, response) =>
                IF response.error # NoError
                THEN /\ create'[c].pc = "failed"
                     /\ create'[c].error = response.error
                     /\ evaluators' = evaluators
                     /\ session' = session
                ELSE /\ create'[c].pc = "returned"
                     /\ create'[c].ev = response.evaluator_id
                     /\ evaluators' = evaluators \cup {response.evaluator_id}
                     /\ session'[response.evaluator_id] = NewSession(response.evaluator_id)
       /\ evaluators' # evaluators =>
            \E c \in CreateCalls :
                /\ create[c].pc = "awaiting" /\ create'[c].pc = "returned"
                /\ evaluators' = evaluators \cup {create'[c].ev}]_vars

C22_Witness ==
    /\ \E c \in CreateCalls : create[c].pc = "failed" /\ create[c].error = "rejected"
    /\ \E c \in CreateCalls : create[c].pc = "returned" /\ create[c].ev \in evaluators
    /\ Cardinality(evaluators) = 1

\* C24: teardown runs exactly once, whatever close calls are made before,
\* during and after it: it runs only while the manager is not yet closed, and
\* once it has run neither a manager close, nor a session close, nor the
\* closes teardown itself performs bring the process back to a state from
\* which it runs again.
C24_TeardownRunsOnce ==
    [][/\ handle_close => ~closed
       /\ closed => (closed' /\ proc = "closed" /\ proc' = "closed")]_vars

C24_Witness ==
    /\ closed
    /\ proc = "closed"
    /\ \E s \in EvalIds : session[s].close_calls >= 2

\* C25: the session table holds no closed session: a session is removed from
\* it when it is closed and when the manager tears down.
C25_NoClosedSessionInTable ==
    \A e \in evaluators : ~session[e].closed

\* C23: after the manager's close, teardown eventually runs: every session in
\* the session table is closed, none is skipped, and the manager's closed flag
\* is set.
C23_CloseLeadsToTeardown ==
    (proc = "exiting") ~> (closed /\ proc = "closed"
                           /\ \A e \in evaluators : session[e].closed)

C23_Witness ==
    /\ closed
    /\ Cardinality(evaluators) >= 2
    /\ \A e \in evaluators : session[e].closed /\ session[e].close_calls = 1

\* C26: a manager is open when its constructor has returned it: its closed
\* flag is false and the engine process is running, so that a first
\* new_evaluator call is admitted.
C26_NewManagerIsOpen ==
    /\ manager = "EvaluatorManager" => (~closed /\ proc = "running")
    /\ [][(manager = "constructing" /\ manager' # "constructing")
              => (~closed' /\ proc' = "running")]_vars

\* C27: when new_project_evaluator has returned the real session, the bootstrap
\* session is not an extra open session of the session table: it has been
\* closed (or removed), or it is the session that was returned.
C27_BootstrapNotLeftOpen ==
    (eval[1].pc = "returned" /\ create[2].pc = "returned")
        => \/ create[1].ev \notin evaluators
           \/ session[create[1].ev].closed
           \/ create[1].ev = create[2].ev

\* C28: once a call of the manager's close has returned (here: the one a
\* session's close makes), every new_evaluator call is rejected as closed and
\* writes no CreateEvaluator request, also while the process's exit has not
\* been handled yet.
C28_NoAdmissionAfterClose ==
    [][\A c \in CreateCalls :
          (/\ \E s \in EvalIds : session[s].close_calls > 0
           /\ create[c].pc = "idle"
           /\ create'[c].pc # "idle")
          => /\ create'[c].pc = "failed"
             /\ create'[c].error = ManagerClosedError
             /\ sent' = sent]_vars

====
